---- MODULE Spec2Model ----
(***************************************************************************)
(* A model of db-rs: the storage engine (src/src/store.rs) and the REPL    *)
(* statement parser (src/src/parser.rs).                                   *)
(*                                                                         *)
(* A string is a sequence of one-character strings, so that splitting,    *)
(* lower-casing, joining and trimming are computed character by character.*)
(***************************************************************************)
EXTENDS Integers, Sequences, FiniteSets, TLC

VARIABLES
    storage,   \* Store.storage: the HashMap, a function from the keys present
    call,      \* the most recent call: its name and its arguments
    result,    \* what the most recent store call returned
    stderr,    \* the diagnostics the most recent call wrote with eprintln!
    stdout,    \* the notices the most recent call wrote with println!
    written,   \* history: per key, the value of the last set that returned
               \* Success, or Absent after a del that returned Success
    line,      \* the input line handed to Statement::prep
    stype,     \* prep's local `stype`, the result of StatementType::check
    stmt,      \* the Statement prep returned
    pc         \* position of the prep call: "idle", "ready", "done", "panicked"

vars == <<storage, call, result, stderr, stdout, written, line, stype, stmt, pc>>

parserVars == <<line, stype, stmt, pc>>

-----------------------------------------------------------------------------
(* Bounds of the model.                                                    *)

\* number of distinct keys offered to the store
NumKeys == 3
\* number of distinct values offered to the store
NumVals == 2
\* most (separator run, word) segments after the first word of a line
MaxArgs == 3

Keys == {<<"key", i>> : i \in 1..NumKeys}
Vals == {<<"value", i>> : i \in 1..NumVals}

-----------------------------------------------------------------------------
(* Option<T>                                                               *)

None == [some |-> FALSE]
Some(x) == [some |-> TRUE, val |-> x]
is_none(o) == ~o.some

-----------------------------------------------------------------------------
(* The storage engine.                                                     *)

\* ExecResult and Result<B, ExecResult>
Success == [tag |-> "Success"]
Failed == [tag |-> "Failed"]
Ok(v) == [tag |-> "Ok", val |-> v]
Err(e) == [tag |-> "Err", err |-> e]

\* Store::new
EmptyMap == [k \in {} |-> None]

contains_key(map, key) == key \in DOMAIN map

insert(map, key, value) ==
    [k \in DOMAIN map \cup {key} |-> IF k = key THEN value ELSE map[k]]

remove(map, key) == [k \in DOMAIN map \ {key} |-> map[k]]

\* A set that overwrites the value of a key in use while still reporting Failed.
Store_set_upsert(map, key, value) ==
    IF contains_key(map, key)
    THEN [storage |-> insert(map, key, value), ret |-> Failed,
          err |-> <<"KeyInUse">>, out |-> <<>>]
    ELSE [storage |-> insert(map, key, value), ret |-> Success,
          err |-> <<>>, out |-> <<>>]

\* Store::set
Store_set(map, key, value) ==
    IF contains_key(map, key)
    THEN [storage |-> map, ret |-> Failed,
          err |-> <<"KeyInUse">>, out |-> <<>>]
    ELSE [storage |-> insert(map, key, value), ret |-> Success,
          err |-> <<>>, out |-> <<>>]

\* A get that removes the pair it reads.
Store_get_take(map, key) ==
    IF ~contains_key(map, key)
    THEN [storage |-> map, ret |-> Err(Failed), err |-> <<>>, out |-> <<>>]
    ELSE [storage |-> remove(map, key), ret |-> Ok(map[key]),
          err |-> <<>>, out |-> <<>>]

\* Store::get
Store_get(map, key) ==
    IF ~contains_key(map, key)
    THEN [storage |-> map, ret |-> Err(Failed), err |-> <<>>, out |-> <<>>]
    ELSE [storage |-> map, ret |-> Ok(map[key]), err |-> <<>>, out |-> <<>>]

\* A del that reports Success but clears the whole map.
Store_del_clear(map, key) ==
    IF contains_key(map, key)
    THEN [storage |-> EmptyMap, ret |-> Success,
          err |-> <<>>, out |-> <<"Deleted">>]
    ELSE [storage |-> map, ret |-> Failed,
          err |-> <<"KeyNotFound">>, out |-> <<>>]

\* Store::del
Store_del(map, key) ==
    IF contains_key(map, key)
    THEN [storage |-> remove(map, key), ret |-> Success,
          err |-> <<>>, out |-> <<"Deleted">>]
    ELSE [storage |-> map, ret |-> Failed,
          err |-> <<"KeyNotFound">>, out |-> <<>>]

Absent == [present |-> FALSE]
Present(v) == [present |-> TRUE, val |-> v]

StoreInit ==
    /\ storage = EmptyMap
    /\ call = [op |-> "new"]
    /\ result = [tag |-> "None"]
    /\ stderr = <<>>
    /\ stdout = <<>>
    /\ written = [k \in Keys |-> Absent]

Set(key, value) ==
    LET r == Store_set(storage, key, value) IN
    /\ storage' = r.storage
    /\ call' = [op |-> "set", key |-> key, value |-> value]
    /\ result' = r.ret
    /\ stderr' = r.err
    /\ stdout' = r.out
    /\ written' = IF r.ret = Success
                  THEN [written EXCEPT ![key] = Present(value)]
                  ELSE written
    /\ UNCHANGED parserVars

Get(key) ==
    LET r == Store_get(storage, key) IN
    /\ storage' = r.storage
    /\ call' = [op |-> "get", key |-> key]
    /\ result' = r.ret
    /\ stderr' = r.err
    /\ stdout' = r.out
    /\ UNCHANGED written
    /\ UNCHANGED parserVars

Del(key) ==
    LET r == Store_del(storage, key) IN
    /\ storage' = r.storage
    /\ call' = [op |-> "del", key |-> key]
    /\ result' = r.ret
    /\ stderr' = r.err
    /\ stdout' = r.out
    /\ written' = IF r.ret = Success
                  THEN [written EXCEPT ![key] = Absent]
                  ELSE written
    /\ UNCHANGED parserVars

SetCall == \E key \in Keys, value \in Vals : Set(key, value)
GetCall == \E key \in Keys : Get(key)
DelCall == \E key \in Keys : Del(key)

NoStatement == [stype |-> "None", key |-> None, value |-> None]

ParserIdle ==
    /\ line = <<>>
    /\ stype = "None"
    /\ stmt = NoStatement
    /\ pc = "idle"

Init == StoreInit /\ ParserIdle

Next == SetCall \/ GetCall \/ DelCall

Spec == Init /\ [][Next]_vars

-----------------------------------------------------------------------------
(* Characters and strings.                                                 *)

LowerLetters == <<"s", "e", "t", "p", "u", "i", "n", "r", "g", "l", "c", "o",
                  "d", "m", "k", "v", "x">>
UpperLetters == <<"S", "E", "T", "P", "U", "I", "N", "R", "G", "L", "C", "O",
                  "D", "M", "K", "V", "X">>

LetterIdx == DOMAIN LowerLetters

\* char::to_lowercase on the letters of the model; other characters are kept
LowerChar(c) ==
    IF \E i \in LetterIdx : UpperLetters[i] = c
    THEN LowerLetters[CHOOSE i \in LetterIdx : UpperLetters[i] = c]
    ELSE c

\* str::to_lowercase
to_lowercase(word) == [i \in 1..Len(word) |-> LowerChar(word[i])]

\* the closure |c| c == ' ' || c == '\t' given to str::split
IsSeparator(c) == c = " " \/ c = "\t"

\* str::split with a predicate: one word between every two separators and
\* one before the first and after the last, empty words included
RECURSIVE split(_)
split(cmd) ==
    IF cmd = <<>> THEN << <<>> >>
    ELSE IF IsSeparator(Head(cmd)) THEN << <<>> >> \o split(Tail(cmd))
    ELSE LET r == split(Tail(cmd)) IN
         <<<<Head(cmd)>> \o Head(r)>> \o Tail(r)

\* [&str]::join(" ")
RECURSIVE join(_, _)
join(words, sep) ==
    IF words = <<>> THEN <<>>
    ELSE IF Len(words) = 1 THEN words[1]
    ELSE words[1] \o sep \o join(Tail(words), sep)

\* char::is_whitespace on the characters of the model
IsWhitespace(c) == c \in {" ", "\t", "\n", "\r"}

RECURSIVE trim_start(_)
trim_start(s) ==
    IF s # <<>> /\ IsWhitespace(Head(s)) THEN trim_start(Tail(s)) ELSE s

RECURSIVE trim_end(_)
trim_end(s) ==
    IF s # <<>> /\ IsWhitespace(s[Len(s)])
    THEN trim_end(SubSeq(s, 1, Len(s) - 1))
    ELSE s

\* str::trim
trim(s) == trim_end(trim_start(s))

-----------------------------------------------------------------------------
(* The statement parser.                                                   *)

SetWords == {<<"s", "e", "t">>, <<"p", "u", "t">>,
             <<"i", "n", "s", "e", "r", "t">>, <<"i", "n">>, <<"i">>}
GetWords == {<<"g", "e", "t">>, <<"s", "e", "l", "e", "c", "t">>,
             <<"o", "u", "t", "p", "u", "t">>, <<"o", "u", "t">>, <<"o">>}
DelWords == {<<"d", "e", "l">>, <<"d", "e", "l", "e", "t", "e">>,
             <<"r", "e", "m">>, <<"r", "e", "m", "o", "v", "e">>,
             <<"r", "m">>, <<"d">>}

\* A check that compares the word as written, without lower-casing it.
StatementType_check_cased(word) ==
    IF word \in SetWords THEN "Set"
    ELSE IF word \in GetWords THEN "Get"
    ELSE IF word \in DelWords THEN "Del"
    ELSE "Unk"

\* StatementType::check
StatementType_check(word) ==
    LET w == to_lowercase(word) IN
    IF w \in SetWords THEN "Set"
    ELSE IF w \in GetWords THEN "Get"
    ELSE IF w \in DelWords THEN "Del"
    ELSE "Unk"

\* Collecting the rest of the words whenever there is a first word.
HasRestAlways(cmd_words) == Len(cmd_words) > 0

\* the guard `cmd_words.len() > 1` of the slice cmd_words[2..]
HasRest(cmd_words) == Len(cmd_words) > 1

\* A key guard that also wants the value, reporting the key as missing.
KeyMissingStrict(cmd_words) == Len(cmd_words) < 3

\* the guard `cmd_words.len() < 2` of the key
KeyMissing(cmd_words) == Len(cmd_words) < 2

\* the guard `cmd_words.len() < 3` of the value of a set
ValueMissing(cmd_words) == Len(cmd_words) < 3

\* cmd_words[1].to_string()
KeyOf(cmd_words) == cmd_words[2]

\* A value that still holds the key: the words from the second onward.
RestOfFromKey(cmd_words) == trim(join(Tail(cmd_words), <<" ">>))

\* cmd_words[2..].to_vec().join(" ").trim().to_string()
RestOf(cmd_words) == trim(join(SubSeq(cmd_words, 3, Len(cmd_words)), <<" ">>))

\* A promotion to Fail that spares a set without a value.
MustFailKeyOnly(st, key, value) == st # "Unk" /\ is_none(key)

\* A promotion to Fail that spares a statement without a key.
MustFailSetOnly(st, key, value) == st = "Set" /\ is_none(value)

\* the condition of the final promotion to Fail
MustFail(st, key, value) ==
    \/ (st = "Set" /\ is_none(value))
    \/ (st # "Unk" /\ is_none(key))

KeyTypes == {"Get", "Set", "Del"}

\* the outcome of an index or slice out of range
Panicked == [panicked |-> TRUE, stype |-> "None", stmt |-> NoStatement,
             err |-> <<>>]

\* Statement::prep
Statement_prep(cmd) ==
    LET cmd_words == split(cmd)
        len == Len(cmd_words)
    IN
    IF len < 1 THEN Panicked                          \* cmd_words[0]
    ELSE
    LET st == StatementType_check(cmd_words[1]) IN
    IF HasRest(cmd_words) /\ len < 2 THEN Panicked    \* cmd_words[2..]
    ELSE
    LET cmd_val == IF HasRest(cmd_words) THEN RestOf(cmd_words) ELSE <<>>
        keyErr == IF st \in KeyTypes /\ KeyMissing(cmd_words)
                  THEN <<"KeyNotProvided">> ELSE <<>>
        keyTaken == st \in KeyTypes /\ ~KeyMissing(cmd_words)
    IN
    IF keyTaken /\ len < 2 THEN Panicked              \* cmd_words[1]
    ELSE
    LET key == IF keyTaken THEN Some(KeyOf(cmd_words)) ELSE None
        valueErr == IF st = "Set"
                    THEN IF ValueMissing(cmd_words)
                         THEN <<"ValueNotProvided">> ELSE <<>>
                    ELSE IF st \in {"Get", "Del"} /\ len > 2
                         THEN <<"TooManyInputs">> ELSE <<>>
        value == IF st = "Set" /\ ~ValueMissing(cmd_words)
                 THEN Some(cmd_val) ELSE None
    IN
    [panicked |-> FALSE,
     stype |-> st,
     stmt |-> IF MustFail(st, key, value)
              THEN [stype |-> "Fail", key |-> None, value |-> None]
              ELSE [stype |-> st, key |-> key, value |-> value],
     err |-> keyErr \o valueErr]

Prep ==
    /\ pc = "ready"
    /\ LET r == Statement_prep(line) IN
       /\ pc' = IF r.panicked THEN "panicked" ELSE "done"
       /\ stype' = r.stype
       /\ stmt' = r.stmt
       /\ stderr' = r.err
    /\ stdout' = <<>>
    /\ call' = [op |-> "prep"]
    /\ UNCHANGED <<line, storage, result, written>>

-----------------------------------------------------------------------------
(* The input lines.                                                        *)

Upper(c) ==
    IF \E i \in LetterIdx : LowerLetters[i] = c
    THEN UpperLetters[CHOOSE i \in LetterIdx : LowerLetters[i] = c]
    ELSE c

\* every letter-casing of a lower-case word
RECURSIVE Casings(_)
Casings(word) ==
    IF word = <<>> THEN {<<>>}
    ELSE {<<c>> \o rest : c \in {Head(word), Upper(Head(word))},
                          rest \in Casings(Tail(word))}

Keywords == SetWords \cup GetWords \cup DelWords

\* words that are no keyword: the empty word, prefixes and extensions of
\* keywords, and words that share no letter with them
OtherWords == {<<>>, <<"x">>, <<"s", "e">>, <<"S", "E">>,
               <<"s", "e", "t", "s">>, <<"g", "e">>, <<"d", "e">>,
               <<"r">>, <<"o", "u">>, <<"s", "e", "t", "_">>,
               <<"_", "s", "e", "t">>, <<"u", "n", "k">>}

CasedWords == UNION {Casings(k) : k \in Keywords} \cup OtherWords

CaseTails == {<<>>, <<" ", "K">>, <<"\t", "K", " ", "v">>}

\* every casing of every keyword, alone, with a key, and with key and value
CaseLines == {w \o t : w \in CasedWords, t \in CaseTails}

FirstWords == {<<>>, <<"s", "e", "t">>, <<"I">>, <<"G", "e", "t">>,
               <<"r", "m">>, <<"d", "e", "l">>, <<"x">>}
SepRuns == {<<" ">>, <<"\t">>, <<" ", " ">>}
ArgWords == {<<>>, <<"K">>, <<"v">>}
Segments == {s \o w : s \in SepRuns, w \in ArgWords}

RECURSIVE Tails(_)
Tails(n) ==
    IF n = 0 THEN {<<>>}
    ELSE LET shorter == Tails(n - 1) IN
         shorter \cup {t \o s : t \in shorter, s \in Segments}

\* a first word followed by up to MaxArgs segments, each a run of separators
\* and a word or nothing
ArgLines == {w \o t : w \in FirstWords, t \in Tails(MaxArgs)}

Lines == CaseLines \cup ArgLines

PrepInit ==
    /\ StoreInit
    /\ line \in Lines
    /\ stype = "None"
    /\ stmt = NoStatement
    /\ pc = "ready"

PrepNext == Prep

PrepSpec == PrepInit /\ [][PrepNext]_vars

\* a session: one line parsed while the store is being used
SessionWords == {<<"s", "e", "t">>, <<"g", "e", "t">>, <<"d", "e", "l">>, <<"x">>}
SessionTails == {join([i \in 1..n |-> <<"K">>], <<" ">>) : n \in 0..MaxArgs}
SessionLines ==
    {IF t = <<>> THEN w ELSE w \o <<" ">> \o t :
        w \in SessionWords, t \in SessionTails}

SessionInit ==
    /\ StoreInit
    /\ line \in SessionLines
    /\ stype = "None"
    /\ stmt = NoStatement
    /\ pc = "ready"

SessionNext == SetCall \/ GetCall \/ DelCall \/ Prep

SessionSpec == SessionInit /\ [][SessionNext]_vars

-----------------------------------------------------------------------------
(* Vocabulary of the properties.                                           *)

StoreOps == {"set", "get", "del"}

\* the words of the input line as prep splits it, and the first of them
Tokens == split(line)
FirstToken == Tokens[1]

\* w is k in some letter-casing
SameWord(w, k) ==
    Len(w) = Len(k) /\ \A i \in 1..Len(k) : w[i] \in {k[i], Upper(k[i])}

\* the kind the synonym table gives a word
KindOf(w) ==
    IF \E k \in SetWords : SameWord(w, k) THEN "Set"
    ELSE IF \E k \in GetWords : SameWord(w, k) THEN "Get"
    ELSE IF \E k \in DelWords : SameWord(w, k) THEN "Del"
    ELSE "Unk"

\* the arguments the kind of the first token requires are there
ArgsPresent ==
    \/ KindOf(FirstToken) = "Set" /\ Len(Tokens) >= 3
    \/ KindOf(FirstToken) \in {"Get", "Del"} /\ Len(Tokens) >= 2

FailStatement == [stype |-> "Fail", key |-> None, value |-> None]

\* the words from the n-th onward, one space between every two
RECURSIVE Rejoined(_, _)
Rejoined(ws, n) ==
    IF n > Len(ws) THEN <<>>
    ELSE IF n = Len(ws) THEN ws[n]
    ELSE ws[n] \o <<" ">> \o Rejoined(ws, n + 1)

\* s without the spaces at its ends
RECURSIVE Stripped(_)
Stripped(s) ==
    IF s = <<>> THEN s
    ELSE IF Head(s) = " " THEN Stripped(Tail(s))
    ELSE IF s[Len(s)] = " " THEN Stripped(SubSeq(s, 1, Len(s) - 1))
    ELSE s

\* the maximal runs of characters that are no separator
RECURSIVE WordsOf(_)
WordsOf(cmd) ==
    IF cmd = <<>> THEN <<>>
    ELSE IF IsSeparator(Head(cmd)) THEN WordsOf(Tail(cmd))
    ELSE LET rest == Tail(cmd) IN
         IF rest = <<>> \/ IsSeparator(Head(rest))
         THEN << <<Head(cmd)>> >> \o WordsOf(rest)
         ELSE LET r == WordsOf(rest) IN
              << <<Head(cmd)>> \o Head(r) >> \o Tail(r)

\* the line with its words separated by single spaces
SingleSpaced(cmd) == Rejoined(WordsOf(cmd), 1)

-----------------------------------------------------------------------------
(* The storage engine.                                                     *)

\* C1: a set returns Failed exactly when its key is already present, and then
\* leaves the map as it was, so that a get of the key that follows returns
\* the value stored first; on an absent key it returns Success and the key
\* maps to the value given, the other pairs being kept.
C1_SetNeverOverwrites ==
    [][ /\ call'.op = "set" =>
            LET k == call'.key
                v == call'.value
            IN
            /\ result' \in {Success, Failed}
            /\ (result' = Failed) <=> (k \in DOMAIN storage)
            /\ k \in DOMAIN storage => storage' = storage
            /\ k \notin DOMAIN storage =>
                  /\ DOMAIN storage' = DOMAIN storage \cup {k}
                  /\ storage'[k] = v
                  /\ \A j \in DOMAIN storage : storage'[j] = storage[j]
        /\ (call.op = "set" /\ result = Failed /\ call'.op = "get"
              /\ call'.key = call.key) =>
            /\ written[call.key].present
            /\ result' = Ok(written[call.key].val)
      ]_vars

\* a set of a key in use with another value than the stored one has failed
C1_Witness ==
    /\ call.op = "set"
    /\ result = Failed
    /\ call.key \in DOMAIN storage
    /\ storage[call.key] # call.value

\* C2: a get returns Failed exactly when no set of its key has succeeded
\* since the start or since the last del of it that succeeded, and otherwise
\* the value of the last set of the key that succeeded; it leaves the map
\* alone, and a get repeated right after itself returns the same.
C2_GetReadsLastSet ==
    [][ call'.op = "get" =>
            LET k == call'.key IN
            /\ storage' = storage
            /\ (result' = Err(Failed)) <=> ~written[k].present
            /\ written[k].present => result' = Ok(written[k].val)
            /\ (call.op = "get" /\ call.key = k) => result' = result
      ]_vars

\* a get has returned the second value while the map holds two pairs or more
C2_Witness ==
    /\ call.op = "get"
    /\ result = Ok(<<"value", 2>>)
    /\ Cardinality(DOMAIN storage) >= 2

\* C3: a del returns Failed exactly when its key is absent, and then leaves
\* the map as it was; on a present key it returns Success and removes that
\* pair only; right after it a get of the key fails, a second del of the key
\* fails, and a set of the key succeeds.
C3_DelRemovesOnePair ==
    [][ /\ call'.op = "del" =>
            LET k == call'.key IN
            /\ result' \in {Success, Failed}
            /\ (result' = Failed) <=> (k \notin DOMAIN storage)
            /\ k \notin DOMAIN storage => storage' = storage
            /\ k \in DOMAIN storage =>
                  /\ DOMAIN storage' = DOMAIN storage \ {k}
                  /\ \A j \in DOMAIN storage' : storage'[j] = storage[j]
        /\ (call.op = "del" /\ result = Success /\ call'.op \in StoreOps
              /\ call'.key = call.key) =>
            /\ call'.op = "get" => result' = Err(Failed)
            /\ call'.op = "del" => result' = Failed
            /\ call'.op = "set" => result' = Success
      ]_vars

\* a del has succeeded and other pairs are still in the map
C3_Witness ==
    /\ call.op = "del"
    /\ result = Success
    /\ storage # EmptyMap

-----------------------------------------------------------------------------
(* The statement parser.                                                   *)

\* C4: prep gives the first token the kind of the synonym table whatever its
\* letter-casing, Unknown when the table does not hold it, and with the
\* arguments of the kind present the statement returned is of that kind.
C4_CaseInsensitiveKeyword ==
    pc = "done" =>
        /\ stype = KindOf(FirstToken)
        /\ (ArgsPresent \/ KindOf(FirstToken) = "Unk") =>
              stmt.stype = KindOf(FirstToken)

\* `SeLect` followed by a key has parsed as a Get
C4_Witness ==
    /\ pc = "done"
    /\ stmt.stype = "Get"
    /\ Len(line) > 6
    /\ SubSeq(line, 1, 6) = <<"S", "e", "L", "e", "c", "t">>

\* C5: with a keyword as first token, prep returns the Fail statement exactly
\* when a Set has fewer than 3 tokens or a Get or Del fewer than 2; a first
\* token that is no keyword never gives Fail.
C5_FailIffArgumentsMissing ==
    pc = "done" =>
        /\ KindOf(FirstToken) # "Unk" =>
              ((stmt.stype = "Fail") <=> ~ArgsPresent)
        /\ stmt.stype = "Fail" => stmt = FailStatement
        /\ KindOf(FirstToken) = "Unk" => stmt.stype # "Fail"

\* a Set keyword with a key and no value has failed
C5_Witness ==
    /\ pc = "done"
    /\ stmt = FailStatement
    /\ KindOf(FirstToken) = "Set"
    /\ Len(Tokens) = 2

\* C6: with a keyword and its arguments present, the key is the second token
\* as written; a Set has for value the tokens from the third onward joined
\* by single spaces and trimmed; a Get or a Del has no value, also when
\* tokens follow the key.
C6_KeyAndValue ==
    (pc = "done" /\ ArgsPresent) =>
        /\ stmt.stype = KindOf(FirstToken)
        /\ stmt.key = Some(Tokens[2])
        /\ stmt.stype = "Set" =>
              stmt.value = Some(Stripped(Rejoined(Tokens, 3)))
        /\ stmt.stype \in {"Get", "Del"} => stmt.value = None

\* a Set has taken an upper-case key and a value of two words
C6_Witness ==
    /\ pc = "done"
    /\ stmt.stype = "Set"
    /\ stmt.key = Some(<<"K">>)
    /\ stmt.value = Some(<<"v", " ", "K">>)

\* C7 as stated: the statement is Fail exactly when key and value are both
\* absent; a Set has both, a Get or Del has its key, an Unknown has neither.
C7_FailIffNothing ==
    pc = "done" =>
        /\ (stmt.stype = "Fail") <=> (is_none(stmt.key) /\ is_none(stmt.value))
        /\ stmt.stype = "Set" => ~is_none(stmt.key) /\ ~is_none(stmt.value)
        /\ stmt.stype \in {"Get", "Del"} => ~is_none(stmt.key)
        /\ stmt.stype = "Unk" => is_none(stmt.key) /\ is_none(stmt.value)

\* C7 amended: the statement is Fail or Unknown exactly when key and value
\* are both absent; a Set has both, a Get or Del has its key and no value.
C7_FailOrUnknownIffNothing ==
    pc = "done" =>
        /\ stmt.stype \in {"Set", "Get", "Del", "Unk", "Fail"}
        /\ (stmt.stype \in {"Fail", "Unk"})
              <=> (is_none(stmt.key) /\ is_none(stmt.value))
        /\ stmt.stype = "Set" => ~is_none(stmt.key) /\ ~is_none(stmt.value)
        /\ stmt.stype \in {"Get", "Del"} =>
              ~is_none(stmt.key) /\ is_none(stmt.value)

\* an Unknown statement, of a line with more tokens, carries nothing
C7_Witness ==
    /\ pc = "done"
    /\ stmt.stype = "Unk"
    /\ Len(Tokens) >= 3
    /\ is_none(stmt.key) /\ is_none(stmt.value)

\* the most recent call has failed
CallFailed ==
    \/ call.op = "prep" /\ stmt.stype = "Fail"
    \/ call.op \in {"set", "del"} /\ result = Failed
    \/ call.op = "get" /\ result = Err(Failed)

\* C8 as stated: every call of prep that returns Fail and every call of set,
\* get or del that returns Failed writes exactly one diagnostic.
C8_OneDiagnosticPerFailure == CallFailed => Len(stderr) = 1

\* C8 amended: a prep that returns Fail writes one diagnostic, and two (key
\* and value not provided) for a Set keyword alone; a set or del that returns
\* Failed writes one; a get that returns Failed writes none.
C8_DiagnosticsPerFailure ==
    /\ (call.op = "prep" /\ stmt.stype = "Fail") =>
          stderr = IF KindOf(FirstToken) = "Set"
                   THEN IF Len(Tokens) < 2
                        THEN <<"KeyNotProvided", "ValueNotProvided">>
                        ELSE <<"ValueNotProvided">>
                   ELSE <<"KeyNotProvided">>
    /\ (call.op = "set" /\ result = Failed) => stderr = <<"KeyInUse">>
    /\ (call.op = "del" /\ result = Failed) => stderr = <<"KeyNotFound">>
    /\ (call.op = "get" /\ result = Err(Failed)) => stderr = <<>>

\* prep of a Set keyword alone has failed
C8_Witness ==
    /\ call.op = "prep"
    /\ stmt.stype = "Fail"
    /\ KindOf(FirstToken) = "Set"
    /\ Len(Tokens) = 1

\* C9: prep splits on runs of separators: several separators in a row, and
\* separators at the ends, count as one, so that the statement is the one of
\* the line with single spaces between its words.
C9_WhitespaceRuns ==
    pc = "done" => stmt = Statement_prep(SingleSpaced(line)).stmt

\* C10: prep never indexes out of range and returns a statement for every
\* line; the empty line gives Unknown with no key, no value, no diagnostic.
C10_NeverPanics ==
    /\ pc # "panicked"
    /\ pc = "ready" => ~Statement_prep(line).panicked
    /\ pc = "done" =>
          /\ stmt.stype \in {"Set", "Get", "Del", "Unk", "Fail"}
          /\ line = <<>> =>
                /\ stmt = [stype |-> "Unk", key |-> None, value |-> None]
                /\ stderr = <<>>

\* the empty line has been parsed
C10_Witness ==
    /\ pc = "done"
    /\ line = <<>>
    /\ stmt.stype = "Unk"

====
